---- MODULE Spec2Model ----
(***************************************************************************)
(* Module discovery of scikit-build: skbuild.utils.PythonModuleFinder, a   *)
(* distutils build_py whose find_package_modules and check_module look in  *)
(* a second directory (alternative_build_base), run inside push_dir.       *)
(*                                                                         *)
(* Python strings are sequences of one-character strings, so that          *)
(* str.startswith, slicing by len(...)+1 and os.path.join act on           *)
(* characters exactly as the code does.  None is the model value NoneV.    *)
(***************************************************************************)
EXTENDS Integers, Sequences, FiniteSets, TLC

VARIABLES
    packages,       \* self.packages: list of dotted package names
    package_dir,    \* self.package_dir: dict package name -> directory
    py_modules,     \* self.py_modules: list of dotted module names
    alternative_build_base, \* self.alternative_build_base (None or a path)
    project_dir,    \* argument of find_all_modules
    tree,           \* index of the project's file tree (immutable during discovery)
    cwd,            \* the process's current working directory
    old_cwd,        \* push_dir.old_cwd
    pc,             \* position inside find_all_modules
    idx,            \* loop index of the running loop (1-based)
    checked,        \* find_modules' local dict `packages` (its keys)
    modules,        \* the list under construction / returned
    origin,         \* for each entry of modules, the loop and index that appended it
    pkgcalls,       \* one record per find_package_modules call
    modcalls,       \* one record per check_module call
    warnings,       \* what _log_warning emitted
    error,          \* the exception in flight or raised (None when none)
    entry_cwd,      \* cwd when find_all_modules was called
    runs,           \* number of find_all_modules calls started
    previous,       \* what the previous call returned (None before)
    pure,           \* a call of strip_package, to_unix_path or to_platform_path
    manifest,       \* a call of parse_manifestin
    cmd,            \* a run of the test or install_scripts command, and the logger
    nest            \* the push_dir objects in use and the with statements entered

\* the state of the functions and commands besides the module finder
others == <<pure, manifest, cmd, nest>>

vars == <<packages, package_dir, py_modules, alternative_build_base, project_dir,
          tree, cwd, old_cwd, pc, idx, checked, modules, origin, pkgcalls,
          modcalls, warnings, error, entry_cwd, runs, previous, others>>

\* the value of a part of the state that a behaviour does not use
Unused == [pc |-> "unused"]

config == <<packages, package_dir, py_modules, alternative_build_base,
            project_dir, tree>>

\* None where a str is expected: no str equals it (a str holds single characters)
NoneStr == <<"None">>
\* None where a directory name of the process is expected
NoneV == "None"

\* ------------------------------------------------------------------------
\* Bounds of the model
\* ------------------------------------------------------------------------
MaxPackages == 2    \* longest `packages` list
MaxModules == 2     \* longest `py_modules` list
MaxRuns == 2        \* find_all_modules calls in one behaviour

\* ------------------------------------------------------------------------
\* Python str operations
\* ------------------------------------------------------------------------
SEP == "/"
DOT == "."

\* s.startswith(prefix)
StartsWith(s, prefix) ==
    /\ Len(prefix) <= Len(s)
    /\ SubSeq(s, 1, Len(prefix)) = prefix

\* s.endswith(suffix)
EndsWith(s, suffix) ==
    /\ Len(suffix) <= Len(s)
    /\ SubSeq(s, Len(s) - Len(suffix) + 1, Len(s)) = suffix

\* s[n:]
SliceFrom(s, n) == IF n >= Len(s) THEN <<>> ELSE SubSeq(s, n + 1, Len(s))

\* position of the first c in s at or after i, 0 when there is none
RECURSIVE FindChar(_, _, _)
FindChar(s, c, i) ==
    IF i > Len(s) THEN 0
    ELSE IF s[i] = c THEN i
    ELSE FindChar(s, c, i + 1)

\* position of the last c in s, 0 when there is none
RECURSIVE RFindChar(_, _, _)
RFindChar(s, c, i) ==
    IF i < 1 THEN 0
    ELSE IF s[i] = c THEN i
    ELSE RFindChar(s, c, i - 1)

\* s.split(c): always at least one part ("".split(".") == [""])
RECURSIVE Split(_, _)
Split(s, c) ==
    LET k == FindChar(s, c, 1) IN
    IF k = 0 THEN <<s>>
    ELSE <<SubSeq(s, 1, k - 1)>> \o Split(SliceFrom(s, k), c)

\* c.join(parts)
RECURSIVE JoinWith(_, _)
JoinWith(parts, c) ==
    IF Len(parts) = 0 THEN <<>>
    ELSE IF Len(parts) = 1 THEN parts[1]
    ELSE parts[1] \o <<c>> \o JoinWith(Tail(parts), c)

\* parts[0:-1]
ButLast(parts) == SubSeq(parts, 1, Len(parts) - 1)

\* posixpath.join(a, b)
PathJoin(a, b) ==
    IF StartsWith(b, <<SEP>>) THEN b
    ELSE IF a = <<>> \/ EndsWith(a, <<SEP>>) THEN a \o b
    ELSE a \o <<SEP>> \o b

\* posixpath.join(*parts), parts not empty
RECURSIVE PathJoinAll(_)
PathJoinAll(parts) ==
    IF Len(parts) = 1 THEN parts[1]
    ELSE PathJoin(PathJoinAll(ButLast(parts)), parts[Len(parts)])

\* posixpath.dirname / basename
DirName(path) ==
    LET k == RFindChar(path, SEP, Len(path)) IN
    IF k = 0 THEN <<>> ELSE SubSeq(path, 1, k - 1)

BaseName(path) == SliceFrom(path, RFindChar(path, SEP, Len(path)))

\* os.path.splitext(name)[0] of a name ending in ".py"
DotPy == <<".", "p", "y">>

StripExt(name) ==
    LET k == RFindChar(name, DOT, Len(name)) IN
    IF k <= 1 THEN name ELSE SubSeq(name, 1, k - 1)

\* ------------------------------------------------------------------------
\* The file system.  Directories of the process are named by TLA+ strings;
\* the paths the finder handles are relative to the working directory.
\* ------------------------------------------------------------------------
ProjectRoot == "/proj"      \* the project's directory (the Primary Root)
HomeDir == "/home"          \* another directory, holding no python file
MissingDir == "/missing"    \* a directory that does not exist

setup_py == <<"s", "e", "t", "u", "p", ".", "p", "y">>
m_py == <<"m", ".", "p", "y">>
p_m_py == <<"p", "/", "m", ".", "p", "y">>
p_n_py == <<"p", "/", "n", ".", "p", "y">>
p_init_py == <<"p", "/", "_", "_", "i", "n", "i", "t", "_", "_", ".", "p", "y">>
b_m_py == <<"b", "/", "m", ".", "p", "y">>
b_p_m_py == <<"b", "/", "p", "/", "m", ".", "p", "y">>
b_p_k_py == <<"b", "/", "p", "/", "k", ".", "p", "y">>
b_q_m_py == <<"b", "/", "q", "/", "m", ".", "p", "y">>
q_dir == <<"q">>

\* The project trees: regular files in directory-listing order, and the
\* directories that exist besides the parents of those files.
Trees ==
    << \* 1: pure python project
       [files |-> <<setup_py, m_py, p_init_py, p_m_py, p_n_py>>, xdirs |-> <<>>],
       \* 2: everything comes from the native build's install tree b/
       [files |-> <<setup_py, b_m_py, b_p_m_py, b_p_k_py, b_q_m_py>>, xdirs |-> <<>>],
       \* 3: hybrid: p in both trees, q only in the install tree
       [files |-> <<setup_py, m_py, p_m_py, p_n_py, b_p_k_py, b_p_m_py, b_q_m_py>>,
        xdirs |-> <<>>],
       \* 4: the install tree holds a directory named m.py
       [files |-> <<setup_py, m_py, p_m_py>>, xdirs |-> <<b_m_py>>],
       \* 5: q is an empty directory of the source tree and a package of the install tree
       [files |-> <<setup_py, b_m_py, b_q_m_py>>, xdirs |-> <<q_dir>>] >>

TreeIds == 1 .. Len(Trees)

EmptyTree == [files |-> <<>>, xdirs |-> <<>>]

\* what the directory `dir` of the process holds
TreeAt(dir) == IF dir = ProjectRoot THEN Trees[tree] ELSE EmptyTree

Range(seq) == {seq[i] : i \in 1 .. Len(seq)}

\* every directory above `path`
RECURSIVE Ancestors(_)
Ancestors(path) ==
    LET d == DirName(path) IN
    IF d = <<>> THEN {} ELSE {d} \cup Ancestors(d)

FilesIn(dir) == Range(TreeAt(dir).files)

DirsIn(dir) ==
    LET t == TreeAt(dir) IN
    Range(t.xdirs)
    \cup UNION {Ancestors(f) : f \in Range(t.files)}
    \cup UNION {Ancestors(d) : d \in Range(t.xdirs)}

\* a path without its trailing separators
RECURSIVE NormPath(_)
NormPath(path) ==
    IF Len(path) > 1 /\ EndsWith(path, <<SEP>>)
    THEN NormPath(SubSeq(path, 1, Len(path) - 1))
    ELSE path

\* os.path.isfile, os.path.isdir, os.path.exists, relative to the working directory
IsFile(path) == path \in FilesIn(cwd)
IsDir(path) == NormPath(path) \in DirsIn(cwd)
Exists(path) == IsFile(path) \/ IsDir(path)

\* os.chdir(directory) succeeds
DirectoryExists(directory) == directory \in {ProjectRoot, HomeDir}

\* glob.glob(os.path.join(glob.escape(dir), "*.py")): the entries of `dir`
\* named *.py, files and directories alike, hidden ones left out, in
\* listing order
GlobPy(dir) ==
    LET t == TreeAt(cwd)
        listing == t.files \o t.xdirs
        Match(e) ==
            /\ DirName(e) = NormPath(dir)
            /\ EndsWith(BaseName(e), DotPy)
            /\ ~StartsWith(BaseName(e), <<DOT>>)
        found == SelectSeq(listing, Match)
    IN [i \in 1 .. Len(found) |-> PathJoin(dir, BaseName(found[i]))]

\* ------------------------------------------------------------------------
\* distutils.command.build_py.build_py, the base class: the methods that
\* PythonModuleFinder inherits and calls through super()
\* ------------------------------------------------------------------------
\* an exception: its type, its message, the directory the message names, and
\* the loop iteration it was raised in
NoError == [type |-> "None", msg |-> "", dir |-> <<>>, at |-> <<"", 0>>]

\* DistutilsFileError("package directory '<dir>' does not exist") and
\* DistutilsFileError("supposed package directory '<dir>' exists, but is not a directory")
DistutilsFileError(msg, dir) ==
    [type |-> "DistutilsFileError", msg |-> msg, dir |-> dir, at |-> <<"", 0>>]

\* build_py.get_package_dir(package)
RECURSIVE GetPackageDirLoop(_, _)
GetPackageDirLoop(path, tail) ==
    IF path = <<>>
    THEN LET tail2 == IF <<>> \in DOMAIN package_dir
                      THEN <<package_dir[<<>>]>> \o tail
                      ELSE tail
         IN IF tail2 # <<>> THEN PathJoinAll(tail2) ELSE <<>>
    ELSE LET key == JoinWith(path, DOT) IN
         IF key \in DOMAIN package_dir
         THEN PathJoinAll(<<package_dir[key]>> \o tail)
         ELSE GetPackageDirLoop(ButLast(path), <<path[Len(path)]>> \o tail)

get_package_dir(package) ==
    LET path == Split(package, DOT) IN
    IF DOMAIN package_dir = {}
    THEN PathJoinAll(path)
    ELSE GetPackageDirLoop(path, <<>>)

\* build_py.check_package(package, package_dir): the exception it raises
\* (NoError when none) and the __init__.py it returns (None when none)
init_name == <<"_", "_", "i", "n", "i", "t", "_", "_">>

check_package(package, dir) ==
    IF dir # <<>> /\ ~Exists(dir)
    THEN [raised |-> DistutilsFileError("does not exist", dir), init_py |-> NoneStr]
    ELSE IF dir # <<>> /\ ~IsDir(dir)
    THEN [raised |-> DistutilsFileError("not a directory", dir), init_py |-> NoneStr]
    ELSE LET init_py == PathJoin(dir, init_name \o DotPy) IN
         [raised |-> NoError,
          init_py |-> IF package # <<>> /\ IsFile(init_py) THEN init_py ELSE NoneStr]

\* build_py.find_package_modules(package, package_dir): the exception raised
\* by check_package, or the triples of the *.py entries of the directory,
\* the setup script left out
script_name == setup_py     \* Distribution("setup.py").script_name

base_find_package_modules(package, dir) ==
    LET chk == check_package(package, dir)
        module_files == GlobPy(dir)
        kept == SelectSeq(module_files, LAMBDA f : NormPath(f) # script_name)
    IN [raised |-> chk.raised,
        modules |-> IF chk.raised # NoError THEN <<>>
                    ELSE [i \in 1 .. Len(kept) |->
                            <<package, StripExt(BaseName(kept[i])), kept[i]>>]]

\* ------------------------------------------------------------------------
\* skbuild.utils.PythonModuleFinder
\* ------------------------------------------------------------------------

\* find_package_modules, lines 120-121: the directory that is enumerated
overlay_package_dir(dir) ==
    IF dir # <<>> /\ ~Exists(dir) /\ alternative_build_base # NoneStr
    THEN PathJoin(alternative_build_base, dir)
    ELSE dir

\* a _strip_directory that hands the entry back as enumerated
strip_directory_keeps(entry) == entry

\* find_package_modules._strip_directory(entry)
strip_directory(entry) ==
    LET module_file == entry[3] IN
    IF alternative_build_base # NoneStr /\ StartsWith(module_file, alternative_build_base)
    THEN <<entry[1], entry[2], SliceFrom(module_file, Len(alternative_build_base) + 1)>>
    ELSE entry

\* a find_package_modules that merges the directory of the Primary Root with
\* the one of the Secondary Root
find_package_modules_merging(package, dir) ==
    LET first == base_find_package_modules(package, dir)
        second == base_find_package_modules(package, PathJoin(alternative_build_base, dir))
        both == IF dir # <<>> /\ alternative_build_base # NoneStr
                THEN first.modules \o second.modules
                ELSE first.modules
    IN [raised |-> first.raised,
        effective_dir |-> dir,
        enumerated |-> IF first.raised # NoError THEN <<>> ELSE both,
        modules |-> IF first.raised # NoError THEN <<>>
                    ELSE [i \in 1 .. Len(both) |-> strip_directory(both[i])]]

\* PythonModuleFinder.find_package_modules(package, package_dir): what
\* super() raised, the directory and the entries it enumerated, and the
\* triples handed back
find_package_modules(package, dir) ==
    LET effective == overlay_package_dir(dir)
        found == base_find_package_modules(package, effective)
    IN [raised |-> found.raised,
        effective_dir |-> effective,
        enumerated |-> found.modules,
        modules |-> [i \in 1 .. Len(found.modules) |-> strip_directory(found.modules[i])]]

\* a check_module that accepts every file
check_module_accepts(module, module_file) == [ok |-> TRUE, warned |-> NoneStr]

\* PythonModuleFinder.check_module(module, module_file): the value returned
\* and the file named in the warning (None when nothing is logged)
check_module(module, module_file) ==
    LET updated_module_file ==
            IF alternative_build_base # NoneStr
            THEN PathJoin(alternative_build_base, module_file)
            ELSE NoneStr
        looked_at ==
            IF alternative_build_base # NoneStr /\ Exists(updated_module_file)
            THEN updated_module_file
            ELSE module_file
    IN IF ~IsFile(looked_at)
       THEN [ok |-> FALSE, warned |-> looked_at]
       ELSE [ok |-> TRUE, warned |-> NoneStr]

\* _log_warning(msg, file, module): the logger gets the message, or stdout
\* does when the logger raises ValueError
log_warning(file, module, disconnected) ==
    [to |-> IF disconnected THEN "stdout" ELSE "logger",
     file |-> file, module |-> module]

\* ------------------------------------------------------------------------
\* The declarations and calls the model explores
\* ------------------------------------------------------------------------
pkg_p == <<"p">>
pkg_q == <<"q">>
mod_m == <<"m">>
mod_p_m == <<"p", ".", "m">>
mod_z == <<"z">>
dir_b == <<"b">>
dir_b_slash == <<"b", "/">>
dir_b_p == <<"b", "/", "p">>

PackageNames == {pkg_p, pkg_q}
ModuleNames == {mod_m, mod_p_m, mod_z}

\* the lists without repetition, of at most n names
ListsOf(S, n) ==
    UNION {{f \in [1 .. k -> S] : \A i, j \in 1 .. k : f[i] = f[j] => i = j} : k \in 0 .. n}

NoPackageDir == [x \in {} |-> <<>>]
PackageDirMaps == {NoPackageDir, pkg_p :> dir_b_p, pkg_q :> <<>>}

AlternativeBuildBases == {NoneStr, dir_b, dir_b_slash}

\* ------------------------------------------------------------------------
\* find_all_modules, step by step
\* ------------------------------------------------------------------------

\* a find_all_modules that walks the packages before the loose modules
find_all_modules_phases_swapped == <<"find_packages", "find_modules">>

\* build_py.find_all_modules: the loops it runs, in order
find_all_modules_phases == <<"find_modules", "find_packages">>

PhaseList(phase) == IF phase = "find_modules" THEN py_modules ELSE packages

\* the first loop at or after position k that has something to do
RECURSIVE PhaseFrom(_)
PhaseFrom(k) ==
    IF k > Len(find_all_modules_phases) THEN "exit"
    ELSE IF PhaseList(find_all_modules_phases[k]) # <<>> THEN find_all_modules_phases[k]
    ELSE PhaseFrom(k + 1)

PhaseAfter(phase) ==
    PhaseFrom(1 + CHOOSE k \in 1 .. Len(find_all_modules_phases) :
                      find_all_modules_phases[k] = phase)

\* a push_dir whose __exit__ leaves the working directory where it is
push_dir_exit_stays == cwd

\* push_dir.__exit__: the directory made current
push_dir_exit == old_cwd

Init ==
    /\ packages \in ListsOf(PackageNames, MaxPackages)
    /\ package_dir \in PackageDirMaps
    /\ py_modules \in ListsOf(ModuleNames, MaxModules)
    /\ alternative_build_base \in AlternativeBuildBases
    /\ project_dir \in {NoneV, ProjectRoot, MissingDir}
    /\ tree \in TreeIds
    /\ cwd \in {ProjectRoot, HomeDir}
    /\ old_cwd = NoneV
    /\ pc = "start"
    /\ idx = 1
    /\ checked = [x \in {} |-> <<>>]
    /\ modules = <<>>
    /\ origin = <<>>
    /\ pkgcalls = <<>>
    /\ modcalls = <<>>
    /\ warnings = <<>>
    /\ error = NoError
    /\ entry_cwd = cwd
    /\ runs = 1
    /\ previous = <<>>
    /\ pure = Unused
    /\ manifest = Unused
    /\ cmd = Unused
    /\ nest = Unused

\* find_all_modules(project_dir) up to the body of the with statement:
\* push_dir(project_dir).__enter__()
Enter ==
    /\ pc = "start"
    /\ old_cwd' = cwd
    /\ IF project_dir # NoneV /\ ~DirectoryExists(project_dir)
       THEN \* os.chdir raises; __exit__ is not called
            /\ error' = [type |-> "FileNotFoundError", msg |-> "chdir", dir |-> <<>>,
                         at |-> <<"push_dir", 0>>]
            /\ pc' = "raised"
            /\ cwd' = cwd
       ELSE /\ cwd' = IF project_dir # NoneV THEN project_dir ELSE cwd
            /\ pc' = PhaseFrom(1)
            /\ error' = error
    /\ UNCHANGED <<config, idx, checked, modules, origin, pkgcalls, modcalls,
                   warnings, entry_cwd, runs, previous>>
    /\ UNCHANGED others

\* one iteration of the loop of build_py.find_modules
FindModulesStep ==
    /\ pc = "find_modules"
    /\ LET module == py_modules[idx]
           path == Split(module, DOT)
           package == JoinWith(ButLast(path), DOT)
           module_base == path[Len(path)]
           known == package \in DOMAIN checked
           dir == IF known THEN checked[package] ELSE get_package_dir(package)
           chk == IF known THEN [raised |-> NoError, init_py |-> NoneStr]
                  ELSE check_package(package, dir)
           module_file == PathJoin(dir, module_base \o DotPy)
           found == check_module(module, module_file)
           with_init == IF chk.init_py # NoneStr
                        THEN <<<<package, init_name, chk.init_py>>>> ELSE <<>>
           with_module == IF found.ok
                          THEN <<<<package, module_base, module_file>>>> ELSE <<>>
           added == with_init \o with_module
       IN IF chk.raised # NoError
          THEN /\ error' = [chk.raised EXCEPT !.at = <<"py_modules", idx>>]
               /\ pc' = "exit"
               /\ UNCHANGED <<idx, checked, modules, origin, modcalls, warnings>>
          ELSE /\ checked' = IF known THEN checked ELSE (package :> dir) @@ checked
               /\ modules' = modules \o added
               /\ origin' = origin \o [i \in 1 .. Len(added) |-> <<"py_modules", idx>>]
               /\ modcalls' = Append(modcalls,
                      [idx |-> idx, package |-> package, module |-> module,
                       module_base |-> module_base, module_file |-> module_file,
                       ok |-> found.ok, warned |-> found.warned])
               /\ \E disconnected \in BOOLEAN :
                      warnings' = IF found.ok THEN warnings
                                  ELSE Append(warnings,
                                           log_warning(found.warned, module, disconnected))
               /\ IF idx < Len(py_modules)
                  THEN idx' = idx + 1 /\ pc' = pc
                  ELSE idx' = 1 /\ pc' = PhaseAfter("find_modules")
               /\ error' = error
    /\ UNCHANGED <<config, cwd, old_cwd, pkgcalls, entry_cwd, runs, previous>>
    /\ UNCHANGED others

\* one iteration of the loop over self.packages of build_py.find_all_modules
FindPackagesStep ==
    /\ pc = "find_packages"
    /\ LET package == packages[idx]
           dir == get_package_dir(package)
           m == find_package_modules(package, dir)
       IN /\ pkgcalls' = Append(pkgcalls,
                 [idx |-> idx, package |-> package, package_dir |-> dir,
                  in_primary |-> Exists(dir),
                  effective_dir |-> m.effective_dir, raised |-> m.raised,
                  enumerated |-> m.enumerated, modules |-> m.modules])
          /\ IF m.raised # NoError
             THEN /\ error' = [m.raised EXCEPT !.at = <<"packages", idx>>]
                  /\ pc' = "exit"
                  /\ UNCHANGED <<idx, modules, origin>>
             ELSE /\ modules' = modules \o m.modules
                  /\ origin' = origin \o [i \in 1 .. Len(m.modules) |-> <<"packages", idx>>]
                  /\ IF idx < Len(packages)
                     THEN idx' = idx + 1 /\ pc' = pc
                     ELSE idx' = 1 /\ pc' = PhaseAfter("find_packages")
                  /\ error' = error
    /\ UNCHANGED <<config, cwd, old_cwd, checked, modcalls, warnings, entry_cwd,
                   runs, previous>>
    /\ UNCHANGED others

\* leaving the with statement: push_dir.__exit__, then the return or the
\* exception reaches the caller
Exit ==
    /\ pc = "exit"
    /\ cwd' = push_dir_exit
    /\ pc' = IF error # NoError THEN "raised" ELSE "returned"
    /\ UNCHANGED <<config, old_cwd, idx, checked, modules, origin, pkgcalls,
                   modcalls, warnings, error, entry_cwd, runs, previous>>
    /\ UNCHANGED others

\* the caller calls find_all_modules(project_dir) once more, on the same finder
CallAgain ==
    /\ pc \in {"returned", "raised"}
    /\ runs < MaxRuns
    /\ runs' = runs + 1
    /\ previous' = <<[pc |-> pc, modules |-> modules, error |-> error]>>
    /\ pc' = "start"
    /\ idx' = 1
    /\ checked' = [x \in {} |-> <<>>]
    /\ modules' = <<>>
    /\ origin' = <<>>
    /\ pkgcalls' = <<>>
    /\ modcalls' = <<>>
    /\ warnings' = <<>>
    /\ error' = NoError
    /\ entry_cwd' = cwd
    /\ UNCHANGED <<config, cwd, old_cwd>>
    /\ UNCHANGED others

Next == Enter \/ FindModulesStep \/ FindPackagesStep \/ Exit \/ CallAgain

Spec == Init /\ [][Next]_vars

\* the module finder while the behaviour is about something else
finder == <<packages, package_dir, py_modules, alternative_build_base, project_dir,
            tree, cwd, old_cwd, pc, idx, checked, modules, origin, pkgcalls,
            modcalls, warnings, error, entry_cwd, runs, previous>>

FinderUnused ==
    /\ packages = <<>>
    /\ package_dir = NoPackageDir
    /\ py_modules = <<>>
    /\ alternative_build_base = NoneStr
    /\ project_dir = NoneV
    /\ tree = 1
    /\ cwd = ProjectRoot
    /\ old_cwd = NoneV
    /\ pc = "unused"
    /\ idx = 1
    /\ checked = [x \in {} |-> <<>>]
    /\ modules = <<>>
    /\ origin = <<>>
    /\ pkgcalls = <<>>
    /\ modcalls = <<>>
    /\ warnings = <<>>
    /\ error = NoError
    /\ entry_cwd = ProjectRoot
    /\ runs = 1
    /\ previous = <<>>

\* ------------------------------------------------------------------------
\* Properties
\* ------------------------------------------------------------------------

\* the directory discovery runs in
DiscoveryDir == IF project_dir # NoneV THEN project_dir ELSE entry_cwd

IsFileThere(path) == path \in FilesIn(DiscoveryDir)
ExistsThere(path) == IsFileThere(path) \/ NormPath(path) \in DirsIn(DiscoveryDir)

\* Secondary_Root/path, written out: the root without trailing separator,
\* a separator, the path
UnderSecondary(path) == NormPath(alternative_build_base) \o <<SEP>> \o path

Calls(seq) == {seq[i] : i \in 1 .. Len(seq)}

Finished == pc \in {"returned", "raised"}

\* C1: project_dir is the working directory while discovery runs, and once
\* find_all_modules has returned or raised (also when entering project_dir
\* failed) the working directory is the one it was called in.
C1_WorkingDirectoryRestored ==
    /\ Finished => cwd = entry_cwd
    /\ (pc \in {"find_modules", "find_packages", "exit"} /\ project_dir # NoneV)
           => cwd = project_dir

\* C1 witness: discovery raised after project_dir was entered from elsewhere
C1_Witness ==
    /\ pc = "raised"
    /\ error.type = "DistutilsFileError"
    /\ project_dir = ProjectRoot
    /\ entry_cwd = HomeDir
    /\ cwd = HomeDir

\* a find_package_modules call for a directory found only through the overlay
OnlyInSecondary(c) ==
    /\ c.package_dir # <<>>
    /\ ~c.in_primary
    /\ alternative_build_base # NoneStr

\* the *.py entries of directory `dir` in the discovery directory
PyEntriesOf(dir) ==
    {e \in FilesIn(DiscoveryDir) \cup DirsIn(DiscoveryDir) :
        DirName(e) = dir /\ EndsWith(BaseName(e), DotPy)}

\* C2: a package directory missing from the Primary Root is enumerated
\* under Secondary_Root/declared_dir, and no returned path starts with the
\* Secondary Root.
C2_OverlayEnumeratesSecondaryAndStrips ==
    \A c \in Calls(pkgcalls) :
        OnlyInSecondary(c) =>
            /\ NormPath(c.effective_dir) = UnderSecondary(c.package_dir)
            /\ c.raised = NoError =>
                   {e[3] : e \in Calls(c.enumerated)}
                       = PyEntriesOf(UnderSecondary(c.package_dir))
            /\ Len(c.modules) = Len(c.enumerated)
            /\ \A t \in Calls(c.modules) : ~StartsWith(t[3], alternative_build_base)

\* C2 witness: such a package was enumerated and gave modules
C2_Witness ==
    \E c \in Calls(pkgcalls) :
        /\ OnlyInSecondary(c)
        /\ c.raised = NoError
        /\ c.modules # <<>>
        /\ pc = "returned"

\* C3 as claimed: a package whose directory is empty or exists under the
\* Primary Root is enumerated there, and every triple carries the path as
\* enumerated.
C3_PrimaryPathsUntouched ==
    \A c \in Calls(pkgcalls) :
        (c.package_dir = <<>> \/ c.in_primary) =>
            /\ c.effective_dir = c.package_dir
            /\ c.modules = c.enumerated

\* C4 as claimed: check_module returns True exactly when the file is a
\* regular file under the Primary Root or under the Secondary Root.
C4_TrueIffRegularFileInARoot ==
    \A c \in Calls(modcalls) :
        c.ok = (\/ IsFileThere(c.module_file)
                \/ /\ alternative_build_base # NoneStr
                   /\ IsFileThere(UnderSecondary(c.module_file)))

\* the file of loose module i, relative to the Primary Root: the module's
\* directory joined with its name and ".py"
LooseModule(i) ==
    LET path == Split(py_modules[i], DOT)
        package == JoinWith(ButLast(path), DOT)
        dir == get_package_dir(package)
    IN [package |-> package, module_base |-> path[Len(path)],
        file |-> IF dir = <<>> THEN path[Len(path)] \o DotPy
                 ELSE dir \o <<SEP>> \o path[Len(path)] \o DotPy]

LooseOnlyInSecondary(i) ==
    /\ alternative_build_base # NoneStr
    /\ ~ExistsThere(LooseModule(i).file)
    /\ IsFileThere(UnderSecondary(LooseModule(i).file))

\* C5 as claimed: a loose module whose file exists only under the Secondary
\* Root does not stop discovery and is returned with its
\* Primary-Root-relative path, top-level or dotted.
C5_LooseModuleFromSecondaryIncluded ==
    \A i \in 1 .. Len(py_modules) :
        LooseOnlyInSecondary(i) =>
            /\ error.at # <<"py_modules", i>>
            /\ pc = "returned" =>
                   <<LooseModule(i).package, LooseModule(i).module_base,
                     LooseModule(i).file>> \in Calls(modules)

InNeitherRoot(file) ==
    /\ ~ExistsThere(file)
    /\ alternative_build_base # NoneStr => ~ExistsThere(UnderSecondary(file))

\* the entries of `modules` that iteration i of loop `loop` appended
AppendedBy(loop, i) ==
    {modules[k] : k \in {j \in 1 .. Len(modules) : origin[j] = <<loop, i>>}}

\* C6: check_module on a file that is in neither root returns False, a
\* warning names the file and the module, the module is left out, and
\* discovery goes on: every module and package is examined and what the
\* other calls found is returned.
C6_MissingFileDroppedWithWarning ==
    /\ \A c \in Calls(modcalls) :
           InNeitherRoot(c.module_file) =>
               /\ ~c.ok
               /\ \E w \in Calls(warnings) :
                      w.file = c.module_file /\ w.module = c.module
               /\ \A t \in AppendedBy("py_modules", c.idx) : t[3] # c.module_file
               /\ error.at # <<"py_modules", c.idx>>
    /\ \A c \in Calls(modcalls) :
           (pc = "returned" /\ c.ok) =>
               <<c.package, c.module_base, c.module_file>> \in AppendedBy("py_modules", c.idx)
    /\ pc = "returned" =>
           /\ Len(modcalls) = Len(py_modules)
           /\ Len(pkgcalls) = Len(packages)
           /\ \A c \in Calls(pkgcalls) : Calls(c.modules) = AppendedBy("packages", c.idx)

\* C6 witness: a module with no file anywhere was dropped and another
\* module and a package were still returned
C6_Witness ==
    /\ pc = "returned"
    /\ \E c \in Calls(modcalls) : InNeitherRoot(c.module_file) /\ ~c.ok
    /\ \E c \in Calls(modcalls) : c.ok
    /\ \E c \in Calls(pkgcalls) : c.modules # <<>>

PackageInNeitherRoot(c) ==
    /\ c.package_dir # <<>>
    /\ ~c.in_primary
    /\ alternative_build_base # NoneStr => ~ExistsThere(UnderSecondary(c.package_dir))

\* C7 as claimed: a declared package whose directory is in neither root
\* makes discovery raise "package directory ... does not exist", naming
\* Secondary_Root/declared_dir when a Secondary Root is configured, and
\* nothing else makes discovery raise.  The last part is read in the claim's
\* favour: the package a loose module belongs to counts as a declared
\* package, so only a raise for a directory that is in one of the roots
\* contradicts it.
C7_OnlyUnresolvablePackageAborts ==
    /\ \A c \in Calls(pkgcalls) :
           PackageInNeitherRoot(c) =>
               /\ c.raised.type = "DistutilsFileError"
               /\ c.raised.msg = "does not exist"
               /\ alternative_build_base # NoneStr =>
                      NormPath(c.raised.dir) = UnderSecondary(c.package_dir)
               /\ pc # "returned"
    /\ error.type = "DistutilsFileError" =>
           \/ \E c \in Calls(pkgcalls) :
                  PackageInNeitherRoot(c) /\ error.at = <<"packages", c.idx>>
           \/ /\ error.at[1] = "py_modules"
              /\ InNeitherRoot(get_package_dir(LooseModule(error.at[2]).package))

\* the entries of origin are in the order `first` loop then `second` loop,
\* each loop's entries by increasing index
OrderedBy(first, second) ==
    \A i, j \in 1 .. Len(origin) :
        i < j =>
            /\ ~(origin[i][1] = second /\ origin[j][1] = first)
            /\ origin[i][1] = origin[j][1] => origin[i][2] <= origin[j][2]

SameAsPrevious ==
    (Finished /\ previous # <<>>) =>
        /\ previous[1].pc = pc
        /\ previous[1].modules = modules
        /\ previous[1].error = error

\* C8 as claimed: the triples of the packages come first, in the order of
\* `packages`, then those of the loose modules in the order of
\* `py_modules`, and a second run returns the same sequence.
C8_PackagesThenModules ==
    /\ Len(origin) = Len(modules)
    /\ OrderedBy("packages", "py_modules")
    /\ SameAsPrevious

\* C8 amended: the triples of the loose modules come first, in the order of
\* `py_modules`, then those of the packages in the order of `packages`, and
\* a second run returns the same sequence.
C8_ModulesThenPackages ==
    /\ Len(origin) = Len(modules)
    /\ OrderedBy("py_modules", "packages")
    /\ SameAsPrevious

\* C8 witness: a second run returned triples of loose modules and of packages
C8_Witness ==
    /\ pc = "returned"
    /\ previous # <<>>
    /\ \E i, j \in 1 .. Len(origin) :
           origin[i][1] = "py_modules" /\ origin[j][1] = "packages"

\* C9 as claimed: no two returned triples share (package, module-name).
C9_UniquePackageModule ==
    pc = "returned" =>
        \A i, j \in 1 .. Len(modules) :
            (modules[i][1] = modules[j][1] /\ modules[i][2] = modules[j][2]) => i = j

\* C10: the files behind the triples of one package all lie in one
\* directory, the declared one or Secondary_Root/declared one, and in the
\* declared one whenever it exists under the Primary Root.
C10_OnePackageOneRoot ==
    \A c \in Calls(pkgcalls) :
        /\ Len(c.modules) = Len(c.enumerated)
        /\ \/ \A e \in Calls(c.enumerated) : DirName(e[3]) = c.package_dir
           \/ /\ alternative_build_base # NoneStr
              /\ ~c.in_primary
              /\ \A e \in Calls(c.enumerated) :
                     DirName(e[3]) = UnderSecondary(c.package_dir)
        /\ \A e \in Calls(c.enumerated) : ExistsThere(e[3])

\* C10 witness: a package whose directory exists under both roots gave
\* modules, all of the Primary Root
C10_Witness ==
    \E c \in Calls(pkgcalls) :
        /\ c.package_dir # <<>>
        /\ c.in_primary
        /\ alternative_build_base # NoneStr
        /\ PyEntriesOf(UnderSecondary(c.package_dir)) # {}
        /\ c.modules # <<>>
        /\ pc = "returned"


\* C19 as claimed: for every Secondary Root, with or without a trailing
\* separator, the path of each triple of a package resolved through the
\* overlay is declared_dir joined with the file name.
C19_StripInvertsPrepend ==
    \A c \in Calls(pkgcalls) :
        (OnlyInSecondary(c) /\ c.raised = NoError) =>
            /\ Len(c.modules) = Len(c.enumerated)
            /\ \A k \in 1 .. Len(c.modules) :
                   c.modules[k][3]
                       = c.package_dir \o <<SEP>> \o BaseName(c.enumerated[k][3])


\* ------------------------------------------------------------------------
\* Path functions: to_platform_path, to_unix_path, strip_package
\* ------------------------------------------------------------------------
MaxPathLen == 5     \* longest path handed to the path functions
MaxParts == 2       \* longest list of package components

BACKSLASH == "\\"

\* s.replace(old, new) for single characters
Replace(s, old, new) == [i \in 1 .. Len(s) |-> IF s[i] = old THEN new ELSE s[i]]

\* a to_unix_path that replaces the first backslash only
to_unix_path_first_only(path) ==
    LET k == FindChar(path, BACKSLASH, 1) IN
    IF path = NoneStr \/ k = 0 THEN path
    ELSE [i \in 1 .. Len(path) |-> IF i = k THEN SEP ELSE path[i]]

\* to_unix_path(path)
to_unix_path(path) ==
    IF path # NoneStr THEN Replace(path, BACKSLASH, SEP) ELSE NoneStr

\* to_platform_path(path), os.sep being `sep`
to_platform_path(path, sep) ==
    IF path # NoneStr THEN Replace(Replace(path, SEP, sep), BACKSLASH, sep) ELSE NoneStr

\* a strip_package that compares the text of the path with the text of the
\* package instead of comparing segments
strip_package_by_text(package_parts, module_file) ==
    LET package == JoinWith(package_parts, SEP) IN
    IF package_parts # <<>> /\ StartsWith(to_unix_path(module_file), package)
    THEN SliceFrom(to_unix_path(module_file), Len(package) + 1)
    ELSE module_file

\* strip_package(package_parts, module_file): the leading segments of the
\* path that equal the package components are removed; both separators
\* delimit segments and the result uses "/"
strip_package(package_parts, module_file) ==
    LET segments == Split(to_unix_path(module_file), SEP)
        n == Len(package_parts)
    IN IF package_parts # <<>> /\ n <= Len(segments)
          /\ SubSeq(segments, 1, n) = package_parts
       THEN JoinWith(SubSeq(segments, n + 1, Len(segments)), SEP)
       ELSE module_file

PathChars == {"a", "b", SEP, BACKSLASH}
Components == {<<"a">>, <<"b">>}

\* the strings of at most n characters, and the lists of at most n components
StringsUpTo(n) == UNION {[1 .. k -> PathChars] : k \in 0 .. n}
PartsUpTo(n) == UNION {[1 .. k -> Components] : k \in 0 .. n}

PureInit ==
    /\ FinderUnused
    /\ manifest = Unused
    /\ cmd = Unused
    /\ nest = Unused
    /\ \E path \in StringsUpTo(MaxPathLen) \cup {NoneStr} :
           \/ \E parts \in PartsUpTo(MaxParts) :
                  /\ path # NoneStr
                  /\ pure = [pc |-> "start", fn |-> "strip_package", parts |-> parts,
                             sep |-> SEP, path |-> path, out |-> <<>>, again |-> <<>>]
           \/ \E fn \in {"to_unix_path", "to_platform_path"}, sep \in {SEP, BACKSLASH} :
                  /\ fn = "to_unix_path" => sep = SEP
                  /\ pure = [pc |-> "start", fn |-> fn, parts |-> <<>>,
                             sep |-> sep, path |-> path, out |-> <<>>, again |-> <<>>]

\* strip_package(parts, path) is called
CallStripPackage ==
    /\ pure.pc = "start"
    /\ pure.fn = "strip_package"
    /\ pure' = [pure EXCEPT !.pc = "done", !.out = strip_package(pure.parts, pure.path)]
    /\ UNCHANGED <<finder, manifest, cmd, nest>>

\* to_unix_path is called on the path, then on its own result
CallToUnixPath ==
    /\ pure.fn = "to_unix_path"
    /\ \/ /\ pure.pc = "start"
          /\ pure' = [pure EXCEPT !.pc = "once", !.out = to_unix_path(pure.path)]
       \/ /\ pure.pc = "once"
          /\ pure' = [pure EXCEPT !.pc = "twice", !.again = to_unix_path(pure.out)]
    /\ UNCHANGED <<finder, manifest, cmd, nest>>

\* to_platform_path is called on the path, then on its own result
CallToPlatformPath ==
    /\ pure.fn = "to_platform_path"
    /\ \/ /\ pure.pc = "start"
          /\ pure' = [pure EXCEPT !.pc = "once",
                                  !.out = to_platform_path(pure.path, pure.sep)]
       \/ /\ pure.pc = "once"
          /\ pure' = [pure EXCEPT !.pc = "twice",
                                  !.again = to_platform_path(pure.out, pure.sep)]
    /\ UNCHANGED <<finder, manifest, cmd, nest>>

PureNext == CallStripPackage \/ CallToUnixPath \/ CallToPlatformPath

PureSpec == PureInit /\ [][PureNext]_vars

\* C13: strip_package returns the path unchanged when the package is empty
\* or the path does not begin with the package's segments (a partial match,
\* an absolute path, a first segment that only starts with the package's
\* text), and otherwise returns what follows those segments.
C13_StripPackage ==
    (pure.pc = "done" /\ pure.fn = "strip_package") =>
        LET package == JoinWith(pure.parts, SEP)
            unix == Replace(pure.path, BACKSLASH, SEP)
        IN IF pure.parts # <<>> /\ StartsWith(unix, package \o <<SEP>>)
           THEN /\ package \o <<SEP>> \o pure.out = unix
                /\ Len(pure.out) = Len(pure.path) - Len(package) - 1
           ELSE IF pure.parts # <<>> /\ unix = package
           THEN pure.out = <<>>
           ELSE pure.out = pure.path

\* C13 witness: ['a','b'] stripped from 'a/b/a' leaves 'a'
C13_Witness ==
    /\ pure.pc = "done"
    /\ pure.fn = "strip_package"
    /\ pure.parts = <<<<"a">>, <<"b">>>>
    /\ pure.path = <<"a", SEP, "b", SEP, "a">>
    /\ pure.out = <<"a">>

\* C14: to_unix_path and to_platform_path give the same result when applied
\* to their own result, to_unix_path leaves no backslash, and both return
\* None for None.
C14_NormalizationIdempotent ==
    /\ pure.pc = "twice" => pure.again = pure.out
    /\ (pure.pc \in {"once", "twice"} /\ pure.path = NoneStr) => pure.out = NoneStr
    /\ (pure.pc \in {"once", "twice"} /\ pure.fn = "to_unix_path" /\ pure.path # NoneStr)
           => /\ Len(pure.out) = Len(pure.path)
              /\ \A i \in 1 .. Len(pure.out) :
                     pure.out[i] = IF pure.path[i] = BACKSLASH THEN SEP ELSE pure.path[i]
    /\ (pure.pc \in {"once", "twice"} /\ pure.fn = "to_platform_path"
           /\ pure.path # NoneStr)
           => \A i \in 1 .. Len(pure.out) :
                  pure.out[i] = IF pure.path[i] \in {SEP, BACKSLASH} THEN pure.sep
                                ELSE pure.path[i]

\* C14 witness: to_unix_path was applied twice to a path with two backslashes
C14_Witness ==
    /\ pure.pc = "twice"
    /\ pure.fn = "to_unix_path"
    /\ Cardinality({i \in 1 .. Len(pure.path) : pure.path[i] = BACKSLASH}) >= 2


\* ------------------------------------------------------------------------
\* parse_manifestin(template).  A physical line of the template is the list
\* of its words; distutils' TextFile and FileList do the reading and the
\* directives.
\* ------------------------------------------------------------------------
MaxLines == 3       \* longest template, in physical lines

w_include == <<"i", "n", "c", "l", "u", "d", "e">>
w_exclude == <<"e", "x", "c", "l", "u", "d", "e">>
w_global_include == <<"g", "l", "o", "b", "a", "l", "-">> \o w_include
w_global_exclude == <<"g", "l", "o", "b", "a", "l", "-">> \o w_exclude
w_recursive_include == <<"r", "e", "c", "u", "r", "s", "i", "v", "e", "-">> \o w_include
w_recursive_exclude == <<"r", "e", "c", "u", "r", "s", "i", "v", "e", "-">> \o w_exclude
w_graft == <<"g", "r", "a", "f", "t">>
w_prune == <<"p", "r", "u", "n", "e">>
w_bogus == <<"b", "o", "g", "u", "s">>
w_comment == <<"#", "c">>
w_star == <<"*">>
w_a == <<"a">>
w_b == <<"b">>
w_slash_a == <<SEP, "a">>

\* the files FileList.findall() finds in the working directory
allfiles == <<w_a, w_b>>

\* the physical lines a template is made of
TemplateLines ==
    { <<w_include, w_a>>, <<w_include, w_star>>, <<w_exclude, w_a>>,
      <<w_prune, w_a>>,
      <<>>,                         \* a blank line
      <<w_comment>>,                \* a comment line
      <<w_include, w_b, w_comment>>, \* a directive followed by a comment
      <<w_include>>,                \* malformed: no pattern
      <<w_bogus, w_a>>,             \* malformed: unknown action
      <<w_include, w_b, w_slash_a>> \* a pattern convert_path may refuse
    }

Templates(n) == UNION {[1 .. k -> TemplateLines] : k \in 0 .. n}

\* TextFile(strip_comments=1): the words before the first "#"
RECURSIVE StripComment(_)
StripComment(words) ==
    IF words = <<>> \/ StartsWith(words[1], <<"#">>) THEN <<>>
    ELSE <<words[1]>> \o StripComment(Tail(words))

\* a physical line that is nothing but a comment: readline skips it
\* before it counts the line
CommentOnly(words) == words # <<>> /\ StripComment(words) = <<>>

\* TextFile.readline() from physical position pos with line counter
\* current_line: the logical line (None at end of file), the new position
\* and the new counter
RECURSIVE readline(_, _, _)
readline(lines, pos, current_line) ==
    IF pos >= Len(lines)
    THEN [line |-> NoneStr, pos |-> pos, current_line |-> current_line]
    ELSE IF CommentOnly(lines[pos + 1])
    THEN readline(lines, pos + 1, current_line)
    ELSE IF StripComment(lines[pos + 1]) = <<>>
    THEN readline(lines, pos + 1, current_line + 1)
    ELSE [line |-> StripComment(lines[pos + 1]), pos |-> pos + 1,
          current_line |-> current_line + 1]

\* distutils.util.convert_path(pathname) raises ValueError
convert_path_raises(pathname, sep) ==
    /\ sep # SEP
    /\ pathname # <<>>
    /\ \/ pathname[1] = SEP
       \/ pathname[Len(pathname)] = SEP

\* FileList._parse_template_line(line): the exception it raises ("" when none)
parse_template_line(words, sep) ==
    LET action == words[1]
        min_words ==
            IF action \in {w_include, w_exclude, w_global_include, w_global_exclude}
            THEN 2
            ELSE IF action \in {w_recursive_include, w_recursive_exclude} THEN 3
            ELSE 0
    IN IF action \in {w_graft, w_prune}
       THEN IF Len(words) # 2 THEN "DistutilsTemplateError"
            ELSE IF convert_path_raises(words[2], sep) THEN "ValueError" ELSE ""
       ELSE IF min_words = 0 THEN "DistutilsTemplateError"
       ELSE IF Len(words) < min_words THEN "DistutilsTemplateError"
       ELSE IF \E k \in 2 .. Len(words) : convert_path_raises(words[k], sep)
       THEN "ValueError"
       ELSE ""

\* translate_pattern(pattern, anchor, prefix).search(name) for the patterns
\* of the model: a name, or "*" for every name without a separator
PatternMatches(pattern, prefix, name) ==
    LET rest == IF prefix = NoneStr THEN name
                ELSE SliceFrom(name, Len(prefix) + 1)
    IN /\ prefix # NoneStr => StartsWith(name, prefix \o <<SEP>>)
       /\ \/ pattern = NoneStr
          \/ pattern = rest
          \/ pattern = w_star /\ FindChar(rest, SEP, 1) = 0

\* FileList.include_pattern / exclude_pattern for a list of patterns
RECURSIVE include_patterns(_, _, _)
include_patterns(files, patterns, prefix) ==
    IF patterns = <<>> THEN files
    ELSE include_patterns(
             files \o SelectSeq(allfiles,
                          LAMBDA name : PatternMatches(patterns[1], prefix, name)),
             Tail(patterns), prefix)

RECURSIVE exclude_patterns(_, _, _)
exclude_patterns(files, patterns, prefix) ==
    IF patterns = <<>> THEN files
    ELSE exclude_patterns(
             SelectSeq(files, LAMBDA name : ~PatternMatches(patterns[1], prefix, name)),
             Tail(patterns), prefix)

\* FileList.process_template_line(line) for a line that parses: the new files
process_template_line(files, words) ==
    LET action == words[1] IN
    IF action \in {w_include, w_global_include}
    THEN include_patterns(files, Tail(words), NoneStr)
    ELSE IF action \in {w_exclude, w_global_exclude}
    THEN exclude_patterns(files, Tail(words), NoneStr)
    ELSE IF action = w_recursive_include
    THEN include_patterns(files, Tail(Tail(words)), words[2])
    ELSE IF action = w_recursive_exclude
    THEN exclude_patterns(files, Tail(Tail(words)), words[2])
    ELSE IF action = w_graft
    THEN include_patterns(files, <<NoneStr>>, words[2])
    ELSE exclude_patterns(files, <<NoneStr>>, words[2])

\* parse_manifestin: except (DistutilsTemplateError, ValueError)
caught == {"DistutilsTemplateError", "ValueError"}

\* a parse_manifestin that opens the template without looking for it
template_missing_unchecked(exists) == FALSE

\* parse_manifestin: if not os.path.exists(template)
template_missing(exists) == ~exists

ManifestInit ==
    /\ FinderUnused
    /\ pure = Unused
    /\ cmd = Unused
    /\ nest = Unused
    /\ \E exists \in BOOLEAN, sep \in {SEP, BACKSLASH}, lines \in Templates(MaxLines) :
           /\ ~exists => (lines = <<>> /\ sep = SEP)
           /\ manifest = [pc |-> "start", exists |-> exists, lines |-> lines,
                          sep |-> sep, pos |-> 0, current_line |-> 0,
                          files |-> <<>>, reports |-> <<>>, opened |-> 0,
                          closed |-> 0, result |-> <<>>, raised |-> ""]

\* parse_manifestin up to the loop: the existence test, TextFile(template)
\* and FileList()
ParseOpen ==
    /\ manifest.pc = "start"
    /\ manifest' =
           IF template_missing(manifest.exists)
           THEN [manifest EXCEPT !.pc = "returned", !.result = <<>>]
           ELSE IF ~manifest.exists
           THEN [manifest EXCEPT !.pc = "raised", !.raised = "FileNotFoundError"]
           ELSE [manifest EXCEPT !.pc = "reading", !.opened = 1]
    /\ UNCHANGED <<finder, pure, cmd, nest>>

\* one iteration of the loop: readline, then the end of the file (return
\* file_list.files, template.close()) or process_template_line with its
\* except clause
ParseLine ==
    /\ manifest.pc = "reading"
    /\ LET r == readline(manifest.lines, manifest.pos, manifest.current_line)
           exc == parse_template_line(r.line, manifest.sep)
           read == [manifest EXCEPT !.pos = r.pos, !.current_line = r.current_line]
       IN manifest' =
              IF r.line = NoneStr
              THEN [read EXCEPT !.pc = "returned", !.result = manifest.files,
                                !.closed = 1]
              ELSE IF exc = ""
              THEN [read EXCEPT !.files = process_template_line(manifest.files, r.line)]
              ELSE IF exc \in caught
              THEN [read EXCEPT
                        !.reports = Append(@, [filename |-> "MANIFEST.in",
                                               line |-> r.current_line, msg |-> exc,
                                               at |-> r.pos])]
              ELSE [read EXCEPT !.pc = "raised", !.raised = exc, !.closed = 1]
    /\ UNCHANGED <<finder, pure, cmd, nest>>

ManifestNext == ParseOpen \/ ParseLine

ManifestSpec == ManifestInit /\ [][ManifestNext]_vars


\* ---- properties of parse_manifestin ----

\* the physical line k of the template holds a directive that
\* process_template_line refuses
BadLine(k) ==
    LET words == StripComment(manifest.lines[k])
    IN words # <<>> /\ parse_template_line(words, manifest.sep) # ""

\* the numbers of the bad lines among the first n physical lines, in order
RECURSIVE BadLinesUpTo(_)
BadLinesUpTo(n) ==
    IF n = 0 THEN <<>>
    ELSE BadLinesUpTo(n - 1) \o (IF BadLine(n) THEN <<n>> ELSE <<>>)

\* the template without its bad lines
WithoutBadLines ==
    LET keep == {k \in 1 .. Len(manifest.lines) : ~BadLine(k)}
        RECURSIVE Kept(_)
        Kept(n) == IF n = 0 THEN <<>>
                   ELSE Kept(n - 1) \o (IF n \in keep THEN <<manifest.lines[n]>> ELSE <<>>)
    IN Kept(Len(manifest.lines))

\* the file list a template made of good lines only gives
RECURSIVE ApplyTemplate(_, _)
ApplyTemplate(files, lines) ==
    IF lines = <<>> THEN files
    ELSE LET words == StripComment(lines[1])
         IN ApplyTemplate(IF words = <<>> THEN files
                          ELSE process_template_line(files, words),
                          Tail(lines))

ManifestRunning == manifest.pc \in {"reading", "returned", "raised"} /\ manifest.exists

\* The part of C11 about skipping: the parse never aborts, every bad line
\* read so far has exactly one report carrying the file name and a message,
\* in file order, and the returned list is the one of the template without
\* its bad lines.
ManifestSkipsBadLines ==
    ManifestRunning =>
        LET bad == BadLinesUpTo(manifest.pos) IN
        /\ manifest.pc # "raised"
        /\ Len(manifest.reports) = Len(bad)
        /\ \A i \in 1 .. Len(bad) :
               /\ manifest.reports[i].filename = "MANIFEST.in"
               /\ manifest.reports[i].at = bad[i]
               /\ manifest.reports[i].msg # ""
        /\ manifest.pc = "returned" =>
               /\ manifest.result = ApplyTemplate(<<>>, WithoutBadLines)
               /\ manifest.closed = 1

\* C11 as claimed: a template with a malformed directive line or an invalid
\* path pattern is parsed to the end; each bad line is reported with the
\* file name, the number of that line in the file and a message, and is
\* skipped, so the returned list equals the one of the template without its
\* bad lines.
C11_BadLineReportedAndSkipped ==
    /\ ManifestSkipsBadLines
    /\ ManifestRunning =>
           \A i \in 1 .. Len(manifest.reports) :
               manifest.reports[i].line = manifest.reports[i].at

\* C12: on a path where no template exists parse_manifestin returns an
\* empty list, raises nothing, opens no file and reports nothing.
C12_MissingTemplateGivesEmpty ==
    (manifest.pc \in {"returned", "raised"} /\ ~manifest.exists) =>
        /\ manifest.pc = "returned"
        /\ manifest.result = <<>>
        /\ manifest.raised = ""
        /\ manifest.opened = 0
        /\ manifest.reports = <<>>

C12_Witness ==
    manifest.pc = "returned" /\ ~manifest.exists


\* ------------------------------------------------------------------------
\* distribution_hide_listing and the commands test.run and
\* install_scripts.run.  A command's run is the list of its steps; a step
\* that raises ends the run, after the exit of the block it is in.
\* ------------------------------------------------------------------------
MaxOutfiles == 2    \* most scripts the base install_scripts.run copies

Levels == {"DEBUG", "INFO", "WARNING", "ERROR"}

\* logging.Logger.getEffectiveLevel(): the logger's level, or its parent's
getEffectiveLevel(own, root) == IF own = "NOTSET" THEN root ELSE own

\* hasattr(distribution, "hide_listing") and distribution.hide_listing
hide_listing(dist) == dist = "yes"

\* a context manager whose exit leaves the level as it is
hide_listing_exit_keeps(old_level, level) == level

\* distribution_hide_listing, finally: setLevel(old_level) /
\* set_threshold(old_threshold)
hide_listing_exit(old_level, level) == old_level

\* a test.run that starts the base run first
test_run_base_first == <<"base", "develop">>

\* test.run: run_command("develop"), then super().run()
test_run == <<"develop", "base">>

\* an install_scripts.run that logs inside the block
install_scripts_run_logs_inside == <<"enter", "base", "log", "exit">>

\* install_scripts.run: with distribution_hide_listing: super().run();
\* then distutils_log.info
install_scripts_run == <<"enter", "base", "exit", "log">>

CmdInit ==
    /\ FinderUnused
    /\ pure = Unused
    /\ manifest = Unused
    /\ nest = Unused
    /\ \E command \in {"test", "install_scripts"}, lm \in BOOLEAN,
          own \in Levels \cup {"NOTSET"}, root \in {"INFO", "WARNING"},
          dist \in {"absent", "no", "yes"}, have_run \in BOOLEAN :
           /\ ~lm => (own # "NOTSET" /\ root = "WARNING")
           /\ command = "test" => (lm /\ own = "INFO" /\ root = "WARNING" /\ dist = "absent")
           /\ command = "install_scripts" => ~have_run
           /\ cmd = [pc |-> "running", command |-> command,
                     steps |-> IF command = "test" THEN test_run
                               ELSE install_scripts_run,
                     logging_module |-> lm, own |-> own, root |-> root,
                     dist |-> dist, entry_level |-> getEffectiveLevel(own, root),
                     old_level |-> "", in_block |-> FALSE, exits |-> 0,
                     yielded |-> <<>>, stdout |-> "terminal",
                     have_run |-> have_run, develop |-> "none",
                     base |-> "none", outfiles |-> 0, exc |-> "",
                     emitted |-> <<>>, trace |-> <<>>]

CmdStepIs(step) ==
    /\ cmd.pc = "running"
    /\ cmd.steps # <<>>
    /\ cmd.steps[1] = step

\* the record after a step that ended normally
CmdAdvance(c) ==
    [c EXCEPT !.steps = Tail(cmd.steps),
              !.pc = IF Tail(cmd.steps) = <<>> THEN "returned" ELSE "running"]

\* the record after a step that raised: inside the block the exit still
\* runs, outside the exception leaves run at once
CmdRaise(c, exc) ==
    IF cmd.in_block
    THEN [c EXCEPT !.steps = <<"exit">>, !.exc = exc]
    ELSE [c EXCEPT !.steps = <<>>, !.exc = exc, !.pc = "raised"]

\* distribution_hide_listing up to the yield
HideEnter ==
    /\ CmdStepIs("enter")
    /\ LET hide == hide_listing(cmd.dist)
           old == IF cmd.logging_module
                  THEN getEffectiveLevel(cmd.own, cmd.root) ELSE cmd.own
       IN cmd' = CmdAdvance(
              [cmd EXCEPT !.old_level = old,
                          !.own = IF hide THEN "WARNING" ELSE @,
                          !.stdout = IF hide /\ cmd.logging_module THEN "devnull" ELSE @,
                          !.yielded = <<hide>>,
                          !.in_block = TRUE,
                          !.trace = Append(@, "enter")])
    /\ UNCHANGED <<finder, pure, manifest, nest>>

\* distribution_hide_listing after the yield: the with statement that
\* redirects stdout ends, then the finally clause
HideExit ==
    /\ CmdStepIs("exit")
    /\ LET left == [cmd EXCEPT !.own = hide_listing_exit(cmd.old_level, cmd.own),
                               !.stdout = "terminal",
                               !.in_block = FALSE,
                               !.exits = @ + 1,
                               !.trace = Append(@, "exit")]
       IN cmd' = IF cmd.exc = "" THEN CmdAdvance(left)
                 ELSE [left EXCEPT !.steps = <<>>, !.pc = "raised"]
    /\ UNCHANGED <<finder, pure, manifest, nest>>

\* self.run_command("develop"): Distribution.run_command runs the command
\* unless have_run says it has run
RunDevelop ==
    /\ CmdStepIs("develop")
    /\ \/ /\ cmd.have_run
          /\ cmd' = CmdAdvance([cmd EXCEPT !.trace = Append(@, "develop skipped")])
       \/ /\ ~cmd.have_run
          /\ \/ cmd' = CmdAdvance([cmd EXCEPT !.develop = "done", !.have_run = TRUE,
                                              !.trace = Append(@, "develop done")])
             \/ cmd' = CmdRaise([cmd EXCEPT !.develop = "raised",
                                            !.trace = Append(@, "develop raised")],
                                "develop")
    /\ UNCHANGED <<finder, pure, manifest, nest>>

\* super().run(*args, **kwargs) of either command
BaseRun ==
    /\ CmdStepIs("base")
    /\ \/ \E n \in 0 .. MaxOutfiles :
              cmd' = CmdAdvance([cmd EXCEPT !.base = "done", !.outfiles = n,
                                            !.trace = Append(@, "base done")])
       \/ cmd' = CmdRaise([cmd EXCEPT !.base = "raised",
                                      !.trace = Append(@, "base raised")],
                          "base")
    /\ UNCHANGED <<finder, pure, manifest, nest>>

\* distutils_log.info("copied %d files", len(self.outfiles))
LogCopied ==
    /\ CmdStepIs("log")
    /\ cmd' = CmdAdvance(
           [cmd EXCEPT !.emitted =
                           Append(@, [n |-> cmd.outfiles,
                                      level |-> IF cmd.logging_module
                                                THEN getEffectiveLevel(cmd.own, cmd.root)
                                                ELSE cmd.own,
                                      stdout |-> cmd.stdout,
                                      in_block |-> cmd.in_block,
                                      base |-> cmd.base]),
                       !.trace = Append(@, "log")])
    /\ UNCHANGED <<finder, pure, manifest, nest>>

CmdNext == HideEnter \/ HideExit \/ RunDevelop \/ BaseRun \/ LogCopied

CmdSpec == CmdInit /\ [][CmdNext]_vars

\* ---- properties of the commands ----

CmdLevel ==
    IF cmd.logging_module THEN getEffectiveLevel(cmd.own, cmd.root) ELSE cmd.own

\* C15: inside the block the threshold is WARNING exactly when the
\* distribution has a truthy hide_listing, and that flag is what is yielded;
\* after every exit, normal or by exception, the effective level is the
\* one of entry; without hide_listing the level never differs from it.
C15_HideListingLevel ==
    cmd.command = "install_scripts" =>
        /\ cmd.in_block =>
               /\ cmd.yielded = <<hide_listing(cmd.dist)>>
               /\ hide_listing(cmd.dist) => CmdLevel = "WARNING"
               /\ ~hide_listing(cmd.dist) => CmdLevel = cmd.entry_level
        /\ (~cmd.in_block /\ cmd.exits > 0) => CmdLevel = cmd.entry_level
        /\ ~hide_listing(cmd.dist) => CmdLevel = cmd.entry_level

C15_Witness ==
    /\ cmd.command = "install_scripts"
    /\ hide_listing(cmd.dist)
    /\ cmd.entry_level = "INFO"
    /\ cmd.exits > 0
    /\ cmd.pc = "raised"

Occurs(trace, event) == \E i \in 1 .. Len(trace) : trace[i] = event

\* C16: when the base test run starts, 'develop' has run to completion;
\* when 'develop' fails, the base test run never starts.
C16_DevelopBeforeBaseTest ==
    cmd.command = "test" =>
        /\ cmd.base # "none" => (cmd.have_run /\ cmd.develop # "raised")
        /\ cmd.develop = "raised" => (cmd.base = "none" /\ cmd.pc = "raised")

C16_Witness ==
    /\ cmd.command = "test"
    /\ cmd.trace = <<"develop done", "base done">>

C16_WitnessFailed ==
    /\ cmd.command = "test"
    /\ cmd.pc = "raised"
    /\ cmd.develop = "raised"

\* C17: 'copied N files' is emitted only after the base run has completed
\* and the block has exited, at the level of entry and with stdout restored,
\* also when hide_listing is set; when the base run raises nothing is
\* emitted and the level is restored all the same.
C17_CopiedLoggedAfterBlock ==
    cmd.command = "install_scripts" =>
        /\ \A i \in 1 .. Len(cmd.emitted) :
               /\ cmd.emitted[i].base = "done"
               /\ ~cmd.emitted[i].in_block
               /\ cmd.emitted[i].level = cmd.entry_level
               /\ cmd.emitted[i].stdout = "terminal"
               /\ cmd.emitted[i].n = cmd.outfiles
               /\ Occurs(cmd.trace, "exit")
        /\ cmd.base = "raised" => cmd.emitted = <<>>
        /\ (cmd.base = "raised" /\ cmd.pc = "raised") =>
               /\ CmdLevel = cmd.entry_level
               /\ cmd.stdout = "terminal"
        /\ cmd.pc = "returned" => Len(cmd.emitted) = 1

C17_Witness ==
    /\ cmd.command = "install_scripts"
    /\ hide_listing(cmd.dist)
    /\ cmd.entry_level = "INFO"
    /\ cmd.pc = "returned"
    /\ Len(cmd.emitted) = 1


\* ------------------------------------------------------------------------
\* push_dir under nesting.  A push_dir object keeps one old_cwd; used as a
\* decorator (ContextDecorator) the same object is entered again by every
\* call of the decorated function.
\* ------------------------------------------------------------------------
MaxDepth == 3       \* deepest nesting of entered blocks

dir_a == "/a"
dir_c == "/c"

PushDirs == {NoneV, dir_a, dir_c, MissingDir}

PushInstances == {1, 2}

NestInit ==
    /\ FinderUnused
    /\ pure = Unused
    /\ manifest = Unused
    /\ cmd = Unused
    /\ \E ds \in [PushInstances -> PushDirs], mk \in [PushInstances -> BOOLEAN] :
           nest = [pc |-> "running",
                   cwd |-> HomeDir,
                   start |-> HomeDir,
                   dirs |-> {HomeDir, dir_a, dir_c},
                   insts |-> [i \in PushInstances |->
                                 [directory |-> ds[i], make_directory |-> mk[i],
                                  old_cwd |-> NoneV]],
                   stack |-> <<>>,
                   last |-> [expected |-> HomeDir, got |-> HomeDir],
                   exits |-> 0,
                   failed |-> 0,
                   reentered |-> FALSE]

OnStack(i) == \E k \in 1 .. Len(nest.stack) : nest.stack[k].inst = i

\* push_dir.__enter__ of instance i
PushEnter(i) ==
    /\ nest.pc = "running"
    /\ Len(nest.stack) < MaxDepth
    /\ LET p == nest.insts[i]
           made == IF p.directory # NoneV /\ p.make_directory
                   THEN nest.dirs \cup {p.directory} ELSE nest.dirs
           saved == [nest EXCEPT !.insts[i].old_cwd = nest.cwd,
                                 !.dirs = made,
                                 !.reentered = @ \/ OnStack(i)]
       IN nest' =
              IF p.directory # NoneV /\ p.directory \notin made
              THEN [saved EXCEPT !.failed = 1]
              ELSE [saved EXCEPT
                        !.cwd = IF p.directory # NoneV THEN p.directory ELSE @,
                        !.stack = Append(@, [inst |-> i, at |-> nest.cwd])]
    /\ UNCHANGED <<finder, pure, manifest, cmd>>

\* push_dir.__exit__ of the innermost entered block
PushExit ==
    /\ nest.pc = "running"
    /\ nest.stack # <<>>
    /\ LET top == nest.stack[Len(nest.stack)]
           back == nest.insts[top.inst].old_cwd
       IN nest' = [nest EXCEPT !.cwd = back,
                               !.stack = SubSeq(@, 1, Len(@) - 1),
                               !.last = [expected |-> top.at, got |-> back],
                               !.exits = 1]
    /\ UNCHANGED <<finder, pure, manifest, cmd>>

NestNext == (\E i \in PushInstances : PushEnter(i)) \/ PushExit

NestSpec == NestInit /\ [][NestNext]_vars

\* ---- properties of push_dir under nesting ----

\* C18 as claimed: after any properly nested sequence of enters and exits,
\* re-entering the same push_dir instance included, each exit returns to
\* the working directory that was current at the matching enter, and after
\* the outermost exit the working directory is the one before the
\* outermost enter.
C18_NestedExitsRestoreLIFO ==
    nest.pc = "running" =>
        /\ nest.last.got = nest.last.expected
        /\ nest.stack = <<>> => nest.cwd = nest.start

\* What does hold: as long as no instance is entered while it is already
\* entered, every exit returns to the directory of its enter.
PushDirDistinctInstancesRestore ==
    (nest.pc = "running" /\ ~nest.reentered) =>
        /\ nest.last.got = nest.last.expected
        /\ nest.stack = <<>> => nest.cwd = nest.start

====
